---- MODULE Spec2Model ----
(***************************************************************************)
(* A model of the mu_string string-view library (src/src/mu_string.c).     *)
(*                                                                         *)
(* A view is a record [buf, len]; a pointer is an address, NULL being 0.   *)
(* Memory holds the string literal "" of MU_STRING_EMPTY, a source text    *)
(* and a writable destination buffer.  A caller performs one library call; *)
(* the state records the arguments of the call and everything it returns   *)
(* or stores.                                                              *)
(***************************************************************************)
EXTENDS Integers, Sequences, FiniteSets, TLC

\* ------------------------------------------------------------------------
\* Bounds of the model

\* number of bytes of source text the views are taken from
SrcLen == 4
\* capacity of the writable destination buffer
DstCap == 3
\* largest byte value occurring in the text (bytes are 1..MaxByte)
MaxByte == 2
\* width of int in bits (narrower than size_t, as on LP64)
IntBits == 3
\* width of size_t and of long long in bits
SizeBits == 5

\* ------------------------------------------------------------------------
\* Integer types

INT_MAX == 2 ^ (IntBits - 1) - 1
INT_MIN == 0 - 2 ^ (IntBits - 1)
SIZE_MAX == 2 ^ SizeBits - 1
CInt == INT_MIN .. INT_MAX

\* conversion to size_t: reduction modulo 2^SizeBits
ToSize(n) == n % (2 ^ SizeBits)
\* conversion to long long (as wide as size_t): two's complement wrap
ToLL(n) ==
    LET m == n % (2 ^ SizeBits)
    IN  IF m >= 2 ^ (SizeBits - 1) THEN m - 2 ^ SizeBits ELSE m
\* conversion to int: two's complement wrap
ToInt(n) ==
    LET m == n % (2 ^ IntBits)
    IN  IF m >= 2 ^ (IntBits - 1) THEN m - 2 ^ IntBits ELSE m

\* ------------------------------------------------------------------------
\* Memory layout and views

NULL == 0
\* address of the string literal "" that MU_STRING_EMPTY points to
EmptyLit == 1
\* the source text occupies SrcBase .. SrcBase + SrcLen - 1
SrcBase == 2
\* the destination buffer follows the source text after an unmapped gap
DstBase == SrcBase + SrcLen + 1
Addr == (EmptyLit .. SrcBase + SrcLen - 1) \cup (DstBase .. DstBase + DstCap - 1)
Byte == 0 .. MaxByte
TextByte == 1 .. MaxByte

View(b, l) == [buf |-> b, len |-> l]

MU_STRING_EMPTY == View(EmptyLit, 0)
MU_STRING_MUT_EMPTY == View(NULL, 0)
MU_STRING_NOT_FOUND == View(NULL, 0)
MU_STRING_INVALID == View(NULL, SIZE_MAX)
MU_STRING_END == INT_MAX

\* a predicate: NULL, or a function pointer deciding by the byte alone
NullPred == [null |-> TRUE, set |-> {}]
Pred(S) == [null |-> FALSE, set |-> S]
Preds == {NullPred} \cup {Pred(S) : S \in SUBSET TextByte}

VARIABLES
    mem,        \* the bytes at the mapped addresses
    pc,         \* "idle" before the call, "done" after it
    op,         \* the function called
    s,          \* the subject view (s, haystack, src, s1)
    needle,     \* the second view (needle, prefix, suffix, s2)
    start,      \* slice: start
    end,        \* slice: end
    c,          \* find_char, rfind_char: c;  split_at_char: delimiter
    pred,       \* the predicate argument
    after_ptr,  \* split: TRUE iff the after pointer is not NULL
    after,      \* split: the caller's mu_string_t that after points to
    dst,        \* copy: dst;  append: dst_segment
    ret,        \* the view or segment returned
    retb,       \* the bool returned
    retn,       \* the size_t, int or pointer returned
    seg0,       \* append: the segment {buf, cap} the chain of appends began with
    cat,        \* append: the first cap bytes of the sources appended so far
    total       \* append: the length of those sources, counted up to cap + 1

vars == <<mem, pc, op, s, needle, start, end, c, pred, after_ptr, after, dst,
          ret, retb, retn, seg0, cat, total>>

\* ------------------------------------------------------------------------
\* src/src/mu_string.c

\* mu_string_is_valid without "|| (s.len == 0)"
mu_string_is_valid_buf_only(v) == v.buf # NULL

mu_string_is_valid(v) == (v.buf # NULL) \/ (v.len = 0)

\* mu_string_len without the test of validity
mu_string_len_raw(v) == v.len

mu_string_len(v) == IF ~mu_string_is_valid(v) THEN SIZE_MAX ELSE v.len

mu_string_is_empty(v) == IF ~mu_string_is_valid(v) THEN FALSE ELSE v.len = 0

mu_string_buf(v) ==
    IF ~mu_string_is_valid(v) \/ v.len = 0 THEN NULL ELSE v.buf

\* memcmp over n bytes at addresses a and b: the sign of the first difference
RECURSIVE memcmp(_, _, _)
memcmp(a, b, n) ==
    IF n = 0 THEN 0
    ELSE IF mem[a] < mem[b] THEN 0 - 1
    ELSE IF mem[a] > mem[b] THEN 1
    ELSE memcmp(a + 1, b + 1, n - 1)

\* mu_string_eq without the early "return true" for two empty views
mu_string_eq_by_buf(s1, s2) ==
    LET s1_is_valid == mu_string_is_valid(s1)
        s2_is_valid == mu_string_is_valid(s2)
    IN  IF ~s1_is_valid \/ ~s2_is_valid THEN (~s1_is_valid) = (~s2_is_valid)
        ELSE IF s1.len # s2.len THEN FALSE
        ELSE IF s1.len = 0 THEN s1.buf = s2.buf
        ELSE memcmp(s1.buf, s2.buf, s1.len) = 0

\* mu_string_eq without the memcmp of the contents
mu_string_eq_no_memcmp(s1, s2) ==
    LET s1_is_valid == mu_string_is_valid(s1)
        s2_is_valid == mu_string_is_valid(s2)
    IN  IF ~s1_is_valid \/ ~s2_is_valid THEN (~s1_is_valid) = (~s2_is_valid)
        ELSE s1.len = s2.len

mu_string_eq(s1, s2) ==
    LET s1_is_valid == mu_string_is_valid(s1)
        s2_is_valid == mu_string_is_valid(s2)
    IN  IF ~s1_is_valid \/ ~s2_is_valid THEN (~s1_is_valid) = (~s2_is_valid)
        ELSE IF s1.len # s2.len THEN FALSE
        ELSE IF s1.len = 0 THEN TRUE
        ELSE memcmp(s1.buf, s2.buf, s1.len) = 0

\* mu_string_cmp without the comparison of the lengths after memcmp
mu_string_cmp_prefix_equal(s1, s2) ==
    LET s1_is_valid == mu_string_is_valid(s1)
        s2_is_valid == mu_string_is_valid(s2)
    IN  IF ~s1_is_valid /\ ~s2_is_valid THEN 0
        ELSE IF ~s1_is_valid THEN 0 - 1
        ELSE IF ~s2_is_valid THEN 1
        ELSE IF s1.len = 0 /\ s2.len = 0 THEN 0
        ELSE IF s1.len = 0 THEN 0 - 1
        ELSE IF s2.len = 0 THEN 1
        ELSE memcmp(s1.buf, s2.buf, IF s1.len < s2.len THEN s1.len ELSE s2.len)

\* mu_string_cmp ordering by length before content
mu_string_cmp_len_first(s1, s2) ==
    LET s1_is_valid == mu_string_is_valid(s1)
        s2_is_valid == mu_string_is_valid(s2)
    IN  IF ~s1_is_valid /\ ~s2_is_valid THEN 0
        ELSE IF ~s1_is_valid THEN 0 - 1
        ELSE IF ~s2_is_valid THEN 1
        ELSE IF s1.len < s2.len THEN 0 - 1
        ELSE IF s1.len > s2.len THEN 1
        ELSE memcmp(s1.buf, s2.buf, s1.len)

mu_string_cmp(s1, s2) ==
    LET s1_is_valid == mu_string_is_valid(s1)
        s2_is_valid == mu_string_is_valid(s2)
    IN  IF ~s1_is_valid /\ ~s2_is_valid THEN 0
        ELSE IF ~s1_is_valid THEN 0 - 1
        ELSE IF ~s2_is_valid THEN 1
        ELSE IF s1.len = 0 /\ s2.len = 0 THEN 0
        ELSE IF s1.len = 0 THEN 0 - 1
        ELSE IF s2.len = 0 THEN 1
        ELSE LET min_len == IF s1.len < s2.len THEN s1.len ELSE s2.len
                 cmp_result == memcmp(s1.buf, s2.buf, min_len)
             IN  IF cmp_result # 0 THEN cmp_result
                 ELSE IF s1.len < s2.len THEN 0 - 1
                 ELSE IF s1.len > s2.len THEN 1
                 ELSE 0

mu_string_starts_with(v, prefix) ==
    IF ~mu_string_is_valid(v) \/ ~mu_string_is_valid(prefix) THEN FALSE
    ELSE IF prefix.len = 0 THEN TRUE
    ELSE IF prefix.len > v.len THEN FALSE
    ELSE IF v.len = 0 THEN FALSE
    ELSE memcmp(v.buf, prefix.buf, prefix.len) = 0

\* mu_string_ends_with comparing at s.buf, not at s.buf + s.len - suffix.len
mu_string_ends_with_at_start(v, suffix) ==
    IF ~mu_string_is_valid(v) \/ ~mu_string_is_valid(suffix) THEN FALSE
    ELSE IF suffix.len = 0 THEN TRUE
    ELSE IF suffix.len > v.len THEN FALSE
    ELSE IF v.len = 0 THEN FALSE
    ELSE memcmp(v.buf, suffix.buf, suffix.len) = 0

mu_string_ends_with(v, suffix) ==
    IF ~mu_string_is_valid(v) \/ ~mu_string_is_valid(suffix) THEN FALSE
    ELSE IF suffix.len = 0 THEN TRUE
    ELSE IF suffix.len > v.len THEN FALSE
    ELSE IF v.len = 0 THEN FALSE
    ELSE memcmp(v.buf + v.len - suffix.len, suffix.buf, suffix.len) = 0

\* mu_string_slice without "if (clamped_start_ll < 0) clamped_start_ll = 0"
\* and its twin for end
mu_string_slice_no_floor(v, st, en) ==
    IF ~mu_string_is_valid(v) THEN MU_STRING_INVALID
    ELSE IF v.len = 0 THEN MU_STRING_EMPTY
    ELSE
      LET start_ll == ToLL(st)
          start_adj == IF start_ll < 0 THEN ToLL(v.len) + start_ll ELSE start_ll
          start_sz == ToSize(start_adj)
          clamped_start == IF start_sz > v.len THEN v.len ELSE start_sz
          end_ll == ToLL(en)
          end_adj == IF end_ll < 0 THEN ToLL(v.len) + end_ll ELSE end_ll
          end_sz == ToSize(end_adj)
          clamped_end == IF end_sz > v.len THEN v.len ELSE end_sz
      IN  IF clamped_start >= clamped_end THEN MU_STRING_EMPTY
          ELSE View(v.buf + clamped_start, clamped_end - clamped_start)

\* mu_string_slice without "if (clamped_end > s.len) clamped_end = s.len"
mu_string_slice_no_end_clamp(v, st, en) ==
    IF ~mu_string_is_valid(v) THEN MU_STRING_INVALID
    ELSE IF v.len = 0 THEN MU_STRING_EMPTY
    ELSE
      LET start_ll == ToLL(st)
          start_adj == IF start_ll < 0 THEN ToLL(v.len) + start_ll ELSE start_ll
          clamped_start_ll == IF start_ll < 0 /\ start_adj < 0 THEN 0 ELSE start_adj
          start_sz == ToSize(clamped_start_ll)
          clamped_start == IF start_sz > v.len THEN v.len ELSE start_sz
          end_ll == ToLL(en)
          end_adj == IF end_ll < 0 THEN ToLL(v.len) + end_ll ELSE end_ll
          clamped_end_ll == IF end_ll < 0 /\ end_adj < 0 THEN 0 ELSE end_adj
          clamped_end == ToSize(clamped_end_ll)
      IN  IF clamped_start >= clamped_end THEN MU_STRING_EMPTY
          ELSE View(v.buf + clamped_start, clamped_end - clamped_start)

mu_string_slice(v, st, en) ==
    IF ~mu_string_is_valid(v) THEN MU_STRING_INVALID
    ELSE IF v.len = 0 THEN MU_STRING_EMPTY
    ELSE
      LET start_ll == ToLL(st)
          start_adj == IF start_ll < 0 THEN ToLL(v.len) + start_ll ELSE start_ll
          clamped_start_ll == IF start_ll < 0 /\ start_adj < 0 THEN 0 ELSE start_adj
          start_sz == ToSize(clamped_start_ll)
          clamped_start == IF start_sz > v.len THEN v.len ELSE start_sz
          end_ll == ToLL(en)
          end_adj == IF end_ll < 0 THEN ToLL(v.len) + end_ll ELSE end_ll
          clamped_end_ll == IF end_ll < 0 /\ end_adj < 0 THEN 0 ELSE end_adj
          end_sz == ToSize(clamped_end_ll)
          clamped_end == IF end_sz > v.len THEN v.len ELSE end_sz
      IN  IF clamped_start >= clamped_end THEN MU_STRING_EMPTY
          ELSE View(v.buf + clamped_start, clamped_end - clamped_start)

\* the call pred(ch, arg) of a non-NULL predicate
PredCall(p, ch) == ch \in p.set

\* The outcomes of undefined behaviour, chosen by the build and the run:
\*   ovf  the signed overflow INT_MIN - 1 wraps, or it is carried out in a
\*        wider register;
\*   oob  the byte that a read of an unmapped address yields.
Undefined == [ovf : {"wrap", "wide"}, oob : Byte]

\* (int)len - 1, the first index of a backward scan
LastIndex(len, ub) ==
    LET n == ToInt(len)
    IN  IF n = INT_MIN
          THEN (IF ub.ovf = "wrap" THEN INT_MAX ELSE INT_MIN - 1)
          ELSE n - 1

\* s.buf[i] where the index may lie before the buffer
Load(a, ub) == IF a \in DOMAIN mem THEN mem[a] ELSE ub.oob

RECURSIVE find_char_loop(_, _, _)
find_char_loop(v, ch, i) ==
    IF i < v.len
      THEN IF mem[v.buf + i] = ch
             THEN View(v.buf + i, v.len - i)
             ELSE find_char_loop(v, ch, i + 1)
      ELSE MU_STRING_EMPTY

mu_string_find_char(v, ch) ==
    IF ~mu_string_is_valid(v) THEN MU_STRING_INVALID
    ELSE IF v.len = 0 THEN MU_STRING_EMPTY
    ELSE find_char_loop(v, ch, 0)

RECURSIVE rfind_char_loop(_, _, _)
rfind_char_loop(v, ch, i) ==
    IF i >= 0
      THEN IF mem[v.buf + i] = ch
             THEN View(v.buf + i, ToSize(v.len - ToSize(i)))
             ELSE rfind_char_loop(v, ch, i - 1)
      ELSE MU_STRING_EMPTY

mu_string_rfind_char(v, ch, ub) ==
    IF ~mu_string_is_valid(v) THEN MU_STRING_INVALID
    ELSE IF v.len = 0 THEN MU_STRING_EMPTY
    ELSE rfind_char_loop(v, ch, LastIndex(v.len, ub))

RECURSIVE find_pred_loop(_, _, _)
find_pred_loop(v, p, i) ==
    IF i < v.len
      THEN IF PredCall(p, mem[v.buf + i])
             THEN View(v.buf + i, v.len - i)
             ELSE find_pred_loop(v, p, i + 1)
      ELSE MU_STRING_EMPTY

\* mu_string_find_pred testing "s.len == 0 || pred == NULL" before validity
mu_string_find_pred_null_first(v, p) ==
    IF v.len = 0 \/ p.null THEN MU_STRING_EMPTY
    ELSE IF ~mu_string_is_valid(v) THEN MU_STRING_INVALID
    ELSE find_pred_loop(v, p, 0)

mu_string_find_pred(v, p) ==
    IF ~mu_string_is_valid(v) THEN MU_STRING_INVALID
    ELSE IF v.len = 0 \/ p.null THEN MU_STRING_EMPTY
    ELSE find_pred_loop(v, p, 0)

RECURSIVE rfind_pred_loop(_, _, _)
rfind_pred_loop(v, p, i) ==
    IF i >= 0
      THEN IF PredCall(p, mem[v.buf + i])
             THEN View(v.buf + i, ToSize(v.len - ToSize(i)))
             ELSE rfind_pred_loop(v, p, i - 1)
      ELSE MU_STRING_EMPTY

mu_string_rfind_pred(v, p, ub) ==
    IF ~mu_string_is_valid(v) THEN MU_STRING_INVALID
    ELSE IF v.len = 0 \/ p.null THEN MU_STRING_EMPTY
    ELSE rfind_pred_loop(v, p, LastIndex(v.len, ub))

\* while (start_idx < s.len && pred(s.buf[start_idx], arg)) start_idx++;
RECURSIVE skip_pred_loop(_, _, _)
skip_pred_loop(v, p, start_idx) ==
    IF start_idx < v.len /\ PredCall(p, mem[v.buf + start_idx])
      THEN skip_pred_loop(v, p, start_idx + 1)
      ELSE start_idx

\* mu_string_find_first_not_pred testing pred == NULL before s.len == 0
mu_string_find_first_not_pred_null_first(v, p) ==
    IF ~mu_string_is_valid(v) THEN MU_STRING_INVALID
    ELSE IF p.null THEN View(v.buf, v.len)
    ELSE IF v.len = 0 THEN MU_STRING_EMPTY
    ELSE LET start_idx == skip_pred_loop(v, p, 0)
         IN  IF start_idx = v.len THEN MU_STRING_EMPTY
             ELSE View(v.buf + start_idx, v.len - start_idx)

mu_string_find_first_not_pred(v, p) ==
    IF ~mu_string_is_valid(v) THEN MU_STRING_INVALID
    ELSE IF v.len = 0 THEN MU_STRING_EMPTY
    ELSE IF p.null THEN View(v.buf, v.len)
    ELSE LET start_idx == skip_pred_loop(v, p, 0)
         IN  IF start_idx = v.len THEN MU_STRING_EMPTY
             ELSE View(v.buf + start_idx, v.len - start_idx)

RECURSIVE find_str_loop(_, _, _)
find_str_loop(haystack, ndl, i) ==
    IF i <= haystack.len - ndl.len
      THEN IF memcmp(haystack.buf + i, ndl.buf, ndl.len) = 0
             THEN View(haystack.buf + i, haystack.len - i)
             ELSE find_str_loop(haystack, ndl, i + 1)
      ELSE MU_STRING_EMPTY

\* mu_string_find_str returning the matched window, not the rest of haystack
mu_string_find_str_window(haystack, ndl) ==
    IF ~mu_string_is_valid(haystack) \/ ~mu_string_is_valid(ndl)
      THEN MU_STRING_INVALID
    ELSE IF ndl.len = 0 THEN haystack
    ELSE IF ndl.len > haystack.len THEN MU_STRING_EMPTY
    ELSE LET found == find_str_loop(haystack, ndl, 0)
         IN  IF found = MU_STRING_EMPTY THEN MU_STRING_EMPTY
             ELSE View(found.buf, ndl.len)

mu_string_find_str(haystack, ndl) ==
    IF ~mu_string_is_valid(haystack) \/ ~mu_string_is_valid(ndl)
      THEN MU_STRING_INVALID
    ELSE IF ndl.len = 0 THEN haystack
    ELSE IF ndl.len > haystack.len THEN MU_STRING_EMPTY
    ELSE find_str_loop(haystack, ndl, 0)

mu_string_ltrim(v, p) ==
    IF ~mu_string_is_valid(v) THEN MU_STRING_INVALID
    ELSE IF v.len = 0 \/ p.null THEN v
    ELSE LET start_idx == skip_pred_loop(v, p, 0)
         IN  IF start_idx = v.len THEN MU_STRING_EMPTY
             ELSE View(v.buf + start_idx, v.len - start_idx)

\* while (end_idx >= lo && pred(s.buf[end_idx], arg)) end_idx--;
RECURSIVE rskip_pred_loop(_, _, _, _, _)
rskip_pred_loop(v, p, lo, end_idx, ub) ==
    IF end_idx >= lo /\ PredCall(p, Load(v.buf + end_idx, ub))
      THEN rskip_pred_loop(v, p, lo, end_idx - 1, ub)
      ELSE end_idx

mu_string_rtrim(v, p, ub) ==
    IF ~mu_string_is_valid(v) THEN MU_STRING_INVALID
    ELSE IF v.len = 0 \/ p.null THEN v
    ELSE LET end_idx == rskip_pred_loop(v, p, 0, LastIndex(v.len, ub), ub)
         IN  IF end_idx < 0 THEN MU_STRING_EMPTY
             ELSE View(v.buf, ToSize(ToSize(end_idx) + 1))

mu_string_trim(v, p, ub) ==
    IF ~mu_string_is_valid(v) THEN MU_STRING_INVALID
    ELSE IF v.len = 0 \/ p.null THEN v
    ELSE LET start_idx == skip_pred_loop(v, p, 0)
         IN  IF start_idx = v.len THEN MU_STRING_EMPTY
             ELSE LET end_idx == rskip_pred_loop(v, p, ToInt(start_idx),
                                                 LastIndex(v.len, ub), ub)
                  IN  View(v.buf + start_idx,
                           ToSize(ToSize(end_idx) - start_idx + 1))

\* mu_string_split_handle_result with after starting behind the split point
mu_string_split_handle_result_skip(v, ap, after_old, found_idx) ==
    IF found_idx < v.len
      THEN [ret |-> View(v.buf, found_idx),
            after |-> IF ap
                        THEN View(v.buf + found_idx + 1, v.len - found_idx - 1)
                        ELSE after_old]
      ELSE [ret |-> v,
            after |-> IF ap THEN View(v.buf + v.len, 0) ELSE after_old]

\* A split returns the "before" view and stores through the after pointer:
\* the result is [ret, after], after being the caller's object afterwards
\* (after_old when the pointer is NULL).
mu_string_split_handle_result(v, ap, after_old, found_idx) ==
    IF found_idx < v.len
      THEN [ret |-> View(v.buf, found_idx),
            after |-> IF ap THEN View(v.buf + found_idx, v.len - found_idx)
                      ELSE after_old]
      ELSE [ret |-> v,
            after |-> IF ap THEN View(v.buf + v.len, 0) ELSE after_old]

\* for (i = 0; i < s.len; ++i) if (s.buf[i] == delimiter) { found_idx = i; break; }
RECURSIVE split_at_char_loop(_, _, _)
split_at_char_loop(v, delimiter, i) ==
    IF i < v.len
      THEN IF mem[v.buf + i] = delimiter THEN i
           ELSE split_at_char_loop(v, delimiter, i + 1)
      ELSE v.len

\* mu_string_split_at_char with after starting behind the delimiter
mu_string_split_at_char_skip(v, ap, after_old, delimiter) ==
    IF ~mu_string_is_valid(v)
      THEN [ret |-> MU_STRING_INVALID,
            after |-> IF ap THEN MU_STRING_INVALID ELSE after_old]
    ELSE LET found_idx == split_at_char_loop(v, delimiter, 0)
         IN  IF found_idx # v.len
               THEN [ret |-> View(v.buf, found_idx),
                     after |-> IF ap
                                 THEN View(v.buf + found_idx + 1,
                                           v.len - found_idx - 1)
                                 ELSE after_old]
               ELSE [ret |-> v,
                     after |-> IF ap THEN MU_STRING_NOT_FOUND ELSE after_old]

mu_string_split_at_char(v, ap, after_old, delimiter) ==
    IF ~mu_string_is_valid(v)
      THEN [ret |-> MU_STRING_INVALID,
            after |-> IF ap THEN MU_STRING_INVALID ELSE after_old]
    ELSE LET found_idx == split_at_char_loop(v, delimiter, 0)
         IN  IF found_idx # v.len
               THEN [ret |-> View(v.buf, found_idx),
                     after |-> IF ap
                                 THEN View(v.buf + found_idx, v.len - found_idx)
                                 ELSE after_old]
               ELSE [ret |-> v,
                     after |-> IF ap THEN MU_STRING_NOT_FOUND ELSE after_old]

\* for (i = 0; i < s.len; ++i) if (pred(s.buf[i], arg)) { split_idx = i; break; }
RECURSIVE split_by_pred_loop(_, _, _)
split_by_pred_loop(v, p, i) ==
    IF i < v.len
      THEN IF PredCall(p, mem[v.buf + i]) THEN i
           ELSE split_by_pred_loop(v, p, i + 1)
      ELSE v.len

\* mu_string_split_by_pred storing MU_STRING_NOT_FOUND when nothing matches
mu_string_split_by_pred_not_found(v, ap, after_old, p) ==
    IF ~mu_string_is_valid(v) \/ p.null
      THEN [ret |-> MU_STRING_INVALID,
            after |-> IF ap THEN MU_STRING_INVALID ELSE after_old]
    ELSE LET split_idx == split_by_pred_loop(v, p, 0)
         IN  IF split_idx = v.len
               THEN [ret |-> v,
                     after |-> IF ap THEN MU_STRING_NOT_FOUND ELSE after_old]
               ELSE mu_string_split_handle_result(v, ap, after_old, split_idx)

mu_string_split_by_pred(v, ap, after_old, p) ==
    IF ~mu_string_is_valid(v) \/ p.null
      THEN [ret |-> MU_STRING_INVALID,
            after |-> IF ap THEN MU_STRING_INVALID ELSE after_old]
    ELSE LET split_idx == split_by_pred_loop(v, p, 0)
         IN  IF split_idx = v.len
               THEN [ret |-> v,
                     after |-> IF ap THEN View(v.buf + v.len, 0) ELSE after_old]
               ELSE mu_string_split_handle_result(v, ap, after_old, split_idx)

\* for (i = 0; i < s.len; ++i) if (!pred(s.buf[i], arg)) { found_idx = i; break; }
RECURSIVE split_by_not_pred_loop(_, _, _)
split_by_not_pred_loop(v, p, i) ==
    IF i < v.len
      THEN IF ~PredCall(p, mem[v.buf + i]) THEN i
           ELSE split_by_not_pred_loop(v, p, i + 1)
      ELSE v.len

\* mu_string_split_by_not_pred without "|| pred == NULL"
mu_string_split_by_not_pred_no_null_check(v, ap, after_old, p) ==
    IF ~mu_string_is_valid(v)
      THEN [ret |-> MU_STRING_INVALID,
            after |-> IF ap THEN MU_STRING_INVALID ELSE after_old]
    ELSE mu_string_split_handle_result(v, ap, after_old,
                                       split_by_not_pred_loop(v, p, 0))

mu_string_split_by_not_pred(v, ap, after_old, p) ==
    IF ~mu_string_is_valid(v) \/ p.null
      THEN [ret |-> MU_STRING_INVALID,
            after |-> IF ap THEN MU_STRING_INVALID ELSE after_old]
    ELSE mu_string_split_handle_result(v, ap, after_old,
                                       split_by_not_pred_loop(v, p, 0))

\* memcpy(d, a, n): the memory after copying n bytes from address a to d
\* memcpy that starts one byte before the destination
memcpy_one_before(m, d, a, n) ==
    [x \in DOMAIN m |->
       IF x >= d - 1 /\ x < d + n THEN m[a + (x - d)] ELSE m[x]]

memcpy(m, d, a, n) ==
    [x \in DOMAIN m |-> IF x >= d /\ x < d + n THEN m[a + (x - d)] ELSE m[x]]

\* mu_string_copy without the clamp of bytes_to_copy to dst.len
mu_string_copy_no_truncate(d, src) ==
    IF d.buf = NULL \/ ~mu_string_is_valid(src)
      THEN [ret |-> MU_STRING_INVALID, mem |-> mem]
    ELSE [ret |-> View(d.buf, src.len),
          mem |-> IF src.len > 0
                    THEN memcpy(mem, d.buf, src.buf, src.len)
                    ELSE mem]

\* A copy returns a view and writes memory: the result is [ret, mem].
mu_string_copy(d, src) ==
    IF d.buf = NULL \/ ~mu_string_is_valid(src)
      THEN [ret |-> MU_STRING_INVALID, mem |-> mem]
    ELSE LET bytes_to_copy == IF src.len < d.len THEN src.len ELSE d.len
         IN  [ret |-> View(d.buf, bytes_to_copy),
              mem |-> IF bytes_to_copy > 0
                        THEN memcpy(mem, d.buf, src.buf, bytes_to_copy)
                        ELSE mem]

\* mu_string_append that copies a source whole or not at all
mu_string_append_all_or_nothing(dst_segment, src) ==
    IF dst_segment.buf = NULL \/ ~mu_string_is_valid(src)
      THEN [ret |-> dst_segment, mem |-> mem]
    ELSE IF src.len = 0 \/ src.len > dst_segment.len
      THEN [ret |-> dst_segment, mem |-> mem]
    ELSE [ret |-> View(dst_segment.buf + src.len, dst_segment.len - src.len),
          mem |-> memcpy(mem, dst_segment.buf, src.buf, src.len)]

\* mu_string_append without the clamp of bytes_to_copy to dst_segment.len
mu_string_append_no_truncate(dst_segment, src) ==
    IF dst_segment.buf = NULL \/ ~mu_string_is_valid(src)
      THEN [ret |-> dst_segment, mem |-> mem]
    ELSE IF src.len = 0
      THEN [ret |-> dst_segment, mem |-> mem]
    ELSE [ret |-> View(dst_segment.buf + src.len,
                       ToSize(dst_segment.len - src.len)),
          mem |-> memcpy(mem, dst_segment.buf, src.buf, src.len)]

\* mu_string_append returning the remaining capacity without advancing buf
mu_string_append_no_advance(dst_segment, src) ==
    IF dst_segment.buf = NULL \/ ~mu_string_is_valid(src)
      THEN [ret |-> dst_segment, mem |-> mem]
    ELSE IF src.len = 0
      THEN [ret |-> dst_segment, mem |-> mem]
    ELSE LET bytes_to_copy ==
               IF src.len < dst_segment.len THEN src.len ELSE dst_segment.len
         IN  [ret |-> View(dst_segment.buf, dst_segment.len - bytes_to_copy),
              mem |-> IF bytes_to_copy > 0
                        THEN memcpy(mem, dst_segment.buf, src.buf, bytes_to_copy)
                        ELSE mem]

\* An append returns the remaining segment and writes memory: the result
\* is [ret, mem].
mu_string_append(dst_segment, src) ==
    IF dst_segment.buf = NULL \/ ~mu_string_is_valid(src)
      THEN [ret |-> dst_segment, mem |-> mem]
    ELSE IF src.len = 0
      THEN [ret |-> dst_segment, mem |-> mem]
    ELSE LET bytes_to_copy ==
               IF src.len < dst_segment.len THEN src.len ELSE dst_segment.len
         IN  [ret |-> View(dst_segment.buf + bytes_to_copy,
                           dst_segment.len - bytes_to_copy),
              mem |-> IF bytes_to_copy > 0
                        THEN memcpy(mem, dst_segment.buf, src.buf, bytes_to_copy)
                        ELSE mem]

\* ------------------------------------------------------------------------
\* The calls

\* views a caller can pass: the sentinels, NULL with a non-zero length, and
\* every range of the source text
Views ==
    {MU_STRING_INVALID, MU_STRING_NOT_FOUND, MU_STRING_EMPTY}
      \cup {View(NULL, l) : l \in 1 .. SrcLen}
      \cup UNION {{View(SrcBase + o, l) : l \in 0 .. SrcLen - o} : o \in 0 .. SrcLen}

\* any pair of a pointer and a length, for the functions that read no byte
AnyViews ==
    {View(b, l) : b \in {NULL, EmptyLit} \cup (SrcBase .. SrcBase + SrcLen),
                  l \in (0 .. SrcLen) \cup {SIZE_MAX - 1, SIZE_MAX}}

\* destination segments a caller can pass: NULL with any capacity, and every
\* range of the destination buffer
Segments ==
    {View(NULL, l) : l \in 0 .. DstCap}
      \cup UNION {{View(DstBase + o, l) : l \in 0 .. DstCap - o} : o \in 0 .. DstCap}

Init ==
    /\ \E text \in [SrcBase .. SrcBase + SrcLen - 1 -> TextByte] :
         mem = [a \in Addr |->
                  IF a \in DOMAIN text THEN text[a] ELSE 0]
    /\ pc = "idle"
    /\ op = "none"
    /\ s = MU_STRING_EMPTY
    /\ needle = MU_STRING_EMPTY
    /\ start = 0
    /\ end = 0
    /\ c = 0
    /\ pred = NullPred
    /\ after_ptr = FALSE
    /\ after \in {View(SrcBase, SrcLen), MU_STRING_EMPTY}
    /\ dst = MU_STRING_MUT_EMPTY
    /\ ret = MU_STRING_EMPTY
    /\ retb = FALSE
    /\ retn = 0
    /\ seg0 = MU_STRING_MUT_EMPTY
    /\ cat = << >>
    /\ total = 0

\* a call is made once, from the idle state
Call(name) ==
    /\ pc = "idle"
    /\ pc' = "done"
    /\ op' = name
    /\ UNCHANGED <<seg0, cat, total>>

IsValid ==
    /\ Call("is_valid")
    /\ \E v \in AnyViews :
         /\ s' = v
         /\ retb' = mu_string_is_valid(v)
    /\ UNCHANGED <<mem, needle, start, end, c, pred, after_ptr, after, dst,
                   ret, retn>>

StrLen ==
    /\ Call("len")
    /\ \E v \in AnyViews :
         /\ s' = v
         /\ retn' = mu_string_len(v)
    /\ UNCHANGED <<mem, needle, start, end, c, pred, after_ptr, after, dst,
                   ret, retb>>

IsEmpty ==
    /\ Call("is_empty")
    /\ \E v \in AnyViews :
         /\ s' = v
         /\ retb' = mu_string_is_empty(v)
    /\ UNCHANGED <<mem, needle, start, end, c, pred, after_ptr, after, dst,
                   ret, retn>>

Buf ==
    /\ Call("buf")
    /\ \E v \in AnyViews :
         /\ s' = v
         /\ retn' = mu_string_buf(v)
    /\ UNCHANGED <<mem, needle, start, end, c, pred, after_ptr, after, dst,
                   ret, retb>>

Eq ==
    /\ Call("eq")
    /\ \E v \in Views, w \in Views :
         /\ s' = v
         /\ needle' = w
         /\ retb' = mu_string_eq(v, w)
    /\ UNCHANGED <<mem, start, end, c, pred, after_ptr, after, dst, ret, retn>>

FindChar ==
    /\ Call("find_char")
    /\ \E v \in Views, ch \in Byte :
         /\ s' = v
         /\ c' = ch
         /\ ret' = mu_string_find_char(v, ch)
    /\ UNCHANGED <<mem, needle, start, end, pred, after_ptr, after, dst,
                   retb, retn>>

RFindChar ==
    /\ Call("rfind_char")
    /\ \E v \in Views, ch \in Byte, ub \in Undefined :
         /\ s' = v
         /\ c' = ch
         /\ ret' = mu_string_rfind_char(v, ch, ub)
    /\ UNCHANGED <<mem, needle, start, end, pred, after_ptr, after, dst,
                   retb, retn>>

FindPred ==
    /\ Call("find_pred")
    /\ \E v \in Views, p \in Preds :
         /\ s' = v
         /\ pred' = p
         /\ ret' = mu_string_find_pred(v, p)
    /\ UNCHANGED <<mem, needle, start, end, c, after_ptr, after, dst,
                   retb, retn>>

RFindPred ==
    /\ Call("rfind_pred")
    /\ \E v \in Views, p \in Preds, ub \in Undefined :
         /\ s' = v
         /\ pred' = p
         /\ ret' = mu_string_rfind_pred(v, p, ub)
    /\ UNCHANGED <<mem, needle, start, end, c, after_ptr, after, dst,
                   retb, retn>>

FindFirstNotPred ==
    /\ Call("find_first_not_pred")
    /\ \E v \in Views, p \in Preds :
         /\ s' = v
         /\ pred' = p
         /\ ret' = mu_string_find_first_not_pred(v, p)
    /\ UNCHANGED <<mem, needle, start, end, c, after_ptr, after, dst,
                   retb, retn>>

FindStr ==
    /\ Call("find_str")
    /\ \E v \in Views, w \in Views :
         /\ s' = v
         /\ needle' = w
         /\ ret' = mu_string_find_str(v, w)
    /\ UNCHANGED <<mem, start, end, c, pred, after_ptr, after, dst, retb, retn>>

Slice ==
    /\ Call("slice")
    /\ \E v \in Views, st \in CInt, en \in CInt :
         /\ s' = v
         /\ start' = st
         /\ end' = en
         /\ ret' = mu_string_slice(v, st, en)
    /\ UNCHANGED <<mem, needle, c, pred, after_ptr, after, dst, retb, retn>>

LTrim ==
    /\ Call("ltrim")
    /\ \E v \in Views, p \in Preds :
         /\ s' = v
         /\ pred' = p
         /\ ret' = mu_string_ltrim(v, p)
    /\ UNCHANGED <<mem, needle, start, end, c, after_ptr, after, dst,
                   retb, retn>>

RTrim ==
    /\ Call("rtrim")
    /\ \E v \in Views, p \in Preds, ub \in Undefined :
         /\ s' = v
         /\ pred' = p
         /\ ret' = mu_string_rtrim(v, p, ub)
    /\ UNCHANGED <<mem, needle, start, end, c, after_ptr, after, dst,
                   retb, retn>>

Trim ==
    /\ Call("trim")
    /\ \E v \in Views, p \in Preds, ub \in Undefined :
         /\ s' = v
         /\ pred' = p
         /\ ret' = mu_string_trim(v, p, ub)
    /\ UNCHANGED <<mem, needle, start, end, c, after_ptr, after, dst,
                   retb, retn>>

SplitAtChar ==
    /\ Call("split_at_char")
    /\ \E v \in Views, ap \in BOOLEAN, delimiter \in Byte :
         LET r == mu_string_split_at_char(v, ap, after, delimiter)
         IN  /\ s' = v
             /\ after_ptr' = ap
             /\ c' = delimiter
             /\ ret' = r.ret
             /\ after' = r.after
    /\ UNCHANGED <<mem, needle, start, end, pred, dst, retb, retn>>

SplitByPred ==
    /\ Call("split_by_pred")
    /\ \E v \in Views, ap \in BOOLEAN, p \in Preds :
         LET r == mu_string_split_by_pred(v, ap, after, p)
         IN  /\ s' = v
             /\ after_ptr' = ap
             /\ pred' = p
             /\ ret' = r.ret
             /\ after' = r.after
    /\ UNCHANGED <<mem, needle, start, end, c, dst, retb, retn>>

SplitByNotPred ==
    /\ Call("split_by_not_pred")
    /\ \E v \in Views, ap \in BOOLEAN, p \in Preds :
         LET r == mu_string_split_by_not_pred(v, ap, after, p)
         IN  /\ s' = v
             /\ after_ptr' = ap
             /\ pred' = p
             /\ ret' = r.ret
             /\ after' = r.after
    /\ UNCHANGED <<mem, needle, start, end, c, dst, retb, retn>>

Copy ==
    /\ Call("copy")
    /\ \E d \in Segments, v \in Views :
         LET r == mu_string_copy(d, v)
         IN  /\ dst' = d
             /\ s' = v
             /\ ret' = r.ret
             /\ mem' = r.mem
    /\ UNCHANGED <<needle, start, end, c, pred, after_ptr, after, retb, retn>>

Cmp ==
    /\ Call("cmp")
    /\ \E v \in Views, w \in Views :
         /\ s' = v
         /\ needle' = w
         /\ retn' = mu_string_cmp(v, w)
    /\ UNCHANGED <<mem, start, end, c, pred, after_ptr, after, dst, ret, retb>>

StartsWith ==
    /\ Call("starts_with")
    /\ \E v \in Views, w \in Views :
         /\ s' = v
         /\ needle' = w
         /\ retb' = mu_string_starts_with(v, w)
    /\ UNCHANGED <<mem, start, end, c, pred, after_ptr, after, dst, ret, retn>>

EndsWith ==
    /\ Call("ends_with")
    /\ \E v \in Views, w \in Views :
         /\ s' = v
         /\ needle' = w
         /\ retb' = mu_string_ends_with(v, w)
    /\ UNCHANGED <<mem, start, end, c, pred, after_ptr, after, dst, ret, retn>>

\* the bytes of a view that can be read: none for an invalid one
SrcBytes(v) ==
    IF mu_string_is_valid(v) THEN [i \in 1 .. v.len |-> mem[v.buf + i - 1]]
    ELSE << >>

\* the first n elements of a sequence
Prefix(q, n) == IF Len(q) <= n THEN q ELSE SubSeq(q, 1, n)

\* one append into any segment
AppendFirst ==
    /\ Call("append")
    /\ \E d \in Segments, v \in Views :
         LET r == mu_string_append(d, v)
         IN  /\ dst' = d
             /\ s' = v
             /\ ret' = r.ret
             /\ mem' = r.mem
    /\ UNCHANGED <<needle, start, end, c, pred, after_ptr, after, retb, retn>>

\* the segments a cursor starts from: the first cap bytes of the buffer, or
\* no buffer
Cursors == {View(b, cap) : b \in {NULL, DstBase}, cap \in 0 .. DstCap}

\* The cursor pattern, first step: remaining = append({buf, cap}, src).  Of
\* the sources the caller keeps cat and total, not the views themselves.
AppendStart ==
    /\ pc = "idle"
    /\ pc' = "done"
    /\ op' = "append"
    /\ \E d \in Cursors, v \in Views :
         LET r == mu_string_append(d, v)
         IN  /\ dst' = d
             /\ ret' = r.ret
             /\ mem' = r.mem
             /\ seg0' = d
             /\ cat' = Prefix(SrcBytes(v), d.len)
             /\ total' = IF Len(SrcBytes(v)) > d.len THEN d.len + 1
                         ELSE Len(SrcBytes(v))
    /\ UNCHANGED <<s, needle, start, end, c, pred, after_ptr, after, retb, retn>>

\* the cursor pattern, later steps: remaining = append(remaining, src)
AppendNext ==
    /\ pc = "done"
    /\ op = "append"
    /\ \E v \in Views :
         LET r == mu_string_append(ret, v)
         IN  /\ dst' = ret
             /\ ret' = r.ret
             /\ mem' = r.mem
             /\ cat' = Prefix(cat \o SrcBytes(v), seg0.len)
             /\ total' = IF total + Len(SrcBytes(v)) > seg0.len
                           THEN seg0.len + 1
                           ELSE total + Len(SrcBytes(v))
    /\ UNCHANGED <<pc, op, seg0, s, needle, start, end, c, pred, after_ptr,
                   after, retb, retn>>

Next ==
    \/ IsValid
    \/ StrLen
    \/ IsEmpty
    \/ Buf
    \/ Eq
    \/ FindChar
    \/ RFindChar
    \/ FindPred
    \/ RFindPred
    \/ FindFirstNotPred
    \/ FindStr
    \/ Slice
    \/ LTrim
    \/ RTrim
    \/ Trim
    \/ SplitAtChar
    \/ SplitByPred
    \/ SplitByNotPred
    \/ Copy
    \/ Cmp
    \/ StartsWith
    \/ EndsWith
    \/ AppendFirst

Spec == Init /\ [][Next]_vars

\* the cursor pattern alone: chains of appends into one buffer
InitAppend == Init /\ after = MU_STRING_EMPTY

NextAppend ==
    \/ AppendStart
    \/ AppendNext

SpecAppend == InitAppend /\ [][NextAppend]_vars

\* ------------------------------------------------------------------------
\* Properties

Done(name) == pc = "done" /\ op = name

\* an index normalized as the slice contract says: counted from the end if
\* negative, then clamped into [0, L]
Norm(idx, L) ==
    LET a == IF idx < 0 THEN L + idx ELSE idx
    IN  IF a < 0 THEN 0 ELSE IF a > L THEN L ELSE a

\* C1: mu_string_slice of a valid view of length L normalizes start and end
\* (negative: L + idx; then clamped into [0, L]); if start' >= end' it returns
\* an empty view, otherwise exactly the view {s.buf + start', end' - start'}.
C1_SliceNormalization ==
    (Done("slice") /\ mu_string_is_valid(s)) =>
      LET ns == Norm(start, s.len)
          ne == Norm(end, s.len)
      IN  IF ns >= ne
            THEN mu_string_is_valid(ret) /\ ret.len = 0
            ELSE ret = View(s.buf + ns, ne - ns)

\* a slice from INT_MIN, far below -L, to MU_STRING_END yields the whole view
C1_Witness ==
    /\ Done("slice")
    /\ s.buf = SrcBase /\ s.len = 2
    /\ start = INT_MIN /\ end = MU_STRING_END
    /\ ret = s

\* C2: mu_string_slice of a valid view of length L returns a view r with
\* 0 <= r.len <= L, and a non-empty r lies entirely inside s.
C2_SliceClampLaw ==
    (Done("slice") /\ mu_string_is_valid(s)) =>
      /\ 0 <= ret.len /\ ret.len <= s.len
      /\ ret.len > 0 => (s.buf <= ret.buf /\ ret.buf + ret.len <= s.buf + s.len)

\* a slice whose end lies beyond the view stops at the end of the view
C2_Witness ==
    /\ Done("slice")
    /\ s = View(SrcBase, 2) /\ start = 1 /\ end = 3
    /\ ret = View(s.buf + 1, 1)

\* the bytes of s that equal the delimiter, satisfy pred, do not satisfy pred
CharHits == {i \in 0 .. s.len - 1 : mem[s.buf + i] = c}
PredHits == {i \in 0 .. s.len - 1 : mem[s.buf + i] \in pred.set}
NotPredHits == {i \in 0 .. s.len - 1 : mem[s.buf + i] \notin pred.set}

Least(S) == CHOOSE i \in S : \A j \in S : i <= j

\* C3: mu_string_split_at_char on a valid view in which the delimiter does
\* not occur returns the NotFound sentinel and, when after is not NULL, stores
\* the NotFound sentinel in *after.  The results are compared with
\* MU_STRING_NOT_FOUND as the unit tests compare them, by mu_string_eq, which
\* the sentinel itself (buf NULL, len 0) passes.
C3_SplitAtCharNotFound ==
    (Done("split_at_char") /\ mu_string_is_valid(s) /\ CharHits = {}) =>
      /\ mu_string_eq(ret, MU_STRING_NOT_FOUND)
      /\ after_ptr => mu_string_eq(after, MU_STRING_NOT_FOUND)

\* C4: mu_string_split_by_not_pred on a valid view all of whose bytes satisfy
\* the non-NULL predicate returns the NotFound sentinel and, when after is not
\* NULL, stores the NotFound sentinel in *after.  The results are compared
\* with MU_STRING_NOT_FOUND as the unit tests compare them, by mu_string_eq,
\* which the sentinel itself (buf NULL, len 0) passes.
C4_SplitByNotPredNotFound ==
    (Done("split_by_not_pred") /\ mu_string_is_valid(s) /\ ~pred.null
       /\ NotPredHits = {}) =>
      /\ mu_string_eq(ret, MU_STRING_NOT_FOUND)
      /\ after_ptr => mu_string_eq(after, MU_STRING_NOT_FOUND)

SplitOps == {"split_at_char", "split_by_pred", "split_by_not_pred"}

\* C7: a split of an invalid subject, or a split by a NULL predicate, returns
\* MU_STRING_INVALID and, when after is not NULL, sets *after to
\* MU_STRING_INVALID; when after is NULL nothing is written.
C7_SplitInvalid ==
    [][(pc' = "done" /\ op' \in SplitOps
          /\ (~mu_string_is_valid(s') \/ (op' # "split_at_char" /\ pred'.null)))
        => /\ ret' = MU_STRING_INVALID
           /\ after_ptr' => after' = MU_STRING_INVALID
           /\ ~after_ptr' => after' = after
           /\ mem' = mem]_vars

\* a valid subject split by a NULL predicate with a NULL after pointer: the
\* caller's view keeps the value it had
C7_Witness ==
    /\ Done("split_by_not_pred")
    /\ s = View(SrcBase, 2) /\ pred.null /\ ~after_ptr
    /\ ret = MU_STRING_INVALID
    /\ after = View(SrcBase, SrcLen)

\* C8 as claimed: mu_string_is_valid(v) is false if and only if v is the
\* Invalid sentinel {NULL, SIZE_MAX}.
C8_Claimed ==
    Done("is_valid") => (retb = FALSE <=> s = MU_STRING_INVALID)

\* C8: mu_string_is_valid(v) is false if and only if v.buf is NULL and v.len
\* is not 0; the Invalid sentinel is one such view.
C8_ValidityBoundary ==
    Done("is_valid") => (retb = FALSE <=> (s.buf = NULL /\ s.len # 0))

\* a NULL buffer with length 1 is invalid without being the sentinel
C8_Witness ==
    /\ Done("is_valid")
    /\ s = View(NULL, 1)
    /\ retb = FALSE

ViewOps ==
    {"find_char", "rfind_char", "find_pred", "rfind_pred",
     "find_first_not_pred", "find_str", "slice", "ltrim", "rtrim", "trim",
     "split_at_char", "split_by_pred", "split_by_not_pred", "copy"}

\* C9: every operation that returns a view returns MU_STRING_INVALID when a
\* view it is given is invalid, whatever the other arguments are.
C9_InvalidContagious ==
    (pc = "done" /\ op \in ViewOps
       /\ (~mu_string_is_valid(s)
             \/ (op = "find_str" /\ ~mu_string_is_valid(needle))))
      => ret = MU_STRING_INVALID

\* a search of {NULL, 1} with a NULL predicate returns the Invalid sentinel
C9_Witness ==
    /\ Done("find_pred")
    /\ s = View(NULL, 1) /\ pred.null
    /\ ret = MU_STRING_INVALID

Sentinels == {MU_STRING_EMPTY, MU_STRING_INVALID, MU_STRING_NOT_FOUND}

\* some accessor answers differently for the two views
Distinguished(v, w) ==
    \/ mu_string_is_valid(v) # mu_string_is_valid(w)
    \/ mu_string_is_empty(v) # mu_string_is_empty(w)
    \/ mu_string_len(v) # mu_string_len(w)
    \/ mu_string_buf(v) # mu_string_buf(w)

\* C10 as claimed: any two different sentinels among MU_STRING_EMPTY,
\* MU_STRING_INVALID and MU_STRING_NOT_FOUND are not equal under mu_string_eq
\* and some accessor answers differently for them.
C10_Claimed ==
    (Done("eq") /\ s \in Sentinels /\ needle \in Sentinels /\ s # needle) =>
      /\ retb = FALSE
      /\ Distinguished(s, needle)

\* C10: MU_STRING_INVALID is not equal under mu_string_eq to MU_STRING_EMPTY
\* or MU_STRING_NOT_FOUND and an accessor tells it from each; MU_STRING_EMPTY
\* and MU_STRING_NOT_FOUND are equal under mu_string_eq and every accessor
\* answers the same for both: only their buf fields differ.
C10_Sentinels ==
    (Done("eq") /\ s \in Sentinels /\ needle \in Sentinels /\ s # needle) =>
      IF MU_STRING_INVALID \in {s, needle}
        THEN retb = FALSE /\ Distinguished(s, needle)
        ELSE retb = TRUE /\ ~Distinguished(s, needle) /\ s.buf # needle.buf

\* MU_STRING_NOT_FOUND compared with MU_STRING_EMPTY
C10_Witness ==
    /\ Done("eq")
    /\ s = MU_STRING_NOT_FOUND /\ needle = MU_STRING_EMPTY
    /\ retb = TRUE

\* ------------------------------------------------------------------------
\* The write cursor

Min(a, b) == IF a < b THEN a ELSE b

\* the n bytes of memory m from address b on
BytesAt(m, b, n) == [i \in 1 .. n |-> m[b + i - 1]]

\* C11: a chain of appends that began with a segment {buf, cap}, buf not
\* NULL, and whose sources have a total length of at most cap, has consumed
\* exactly that total (cap - remaining.len), and the bytes of buf consumed
\* are the concatenation of the sources in order.  Sources are views of the
\* source text, which the destination never overlaps; an invalid source has
\* no bytes and adds nothing to the total.
C11_AppendRoundTrip ==
    (Done("append") /\ seg0.buf # NULL /\ total <= seg0.len) =>
        /\ seg0.len - ret.len = total
        /\ Len(cat) = total
        /\ BytesAt(mem, seg0.buf, seg0.len - ret.len) = cat

\* two non-empty sources appended one after the other, capacity left over
C11_Witness ==
    /\ Done("append")
    /\ seg0.buf # NULL
    /\ dst.buf > seg0.buf
    /\ ret.buf > dst.buf
    /\ ret.len > 0
    /\ total = ret.buf - seg0.buf
    /\ cat = BytesAt(mem, seg0.buf, total)
    /\ cat[1] # cat[2]

C13_Copy ==
    [][ (op' = "copy") =>
          LET n == Min(s'.len, dst'.len)
          IN  IF dst'.buf = NULL \/ ~mu_string_is_valid(s')
                THEN /\ ret' = MU_STRING_INVALID
                     /\ mem' = mem
                ELSE /\ ret' = View(dst'.buf, n)
                     /\ mu_string_is_valid(ret')
                     /\ \A a \in Addr :
                          mem'[a] = IF a >= dst'.buf /\ a < dst'.buf + n
                                      THEN mem[s'.buf + (a - dst'.buf)]
                                      ELSE mem[a]
                     /\ BytesAt(mem', ret'.buf, ret'.len)
                          = BytesAt(mem, s'.buf, n)
                     /\ (dst'.len = 0 \/ s'.len = 0) => ret'.len = 0
      ]_vars

\* a source longer than the capacity, copied in part
C13_Witness ==
    /\ Done("copy")
    /\ dst.buf # NULL
    /\ dst.len > 0
    /\ mu_string_is_valid(s)
    /\ s.len > dst.len
    /\ ret = View(dst.buf, dst.len)
    /\ BytesAt(mem, ret.buf, ret.len) = BytesAt(mem, s.buf, dst.len)

\* C14: a byte of memory changes only in a mu_string_copy or a
\* mu_string_append, and only at an offset in [0, min(src.len, segment.len))
\* from the buf of the segment passed in: bytes before segment.buf and bytes
\* at segment.len or beyond stay as they were, and no other operation writes.
C14_WriteConfinement ==
    [][ \A a \in Addr :
          mem'[a] # mem[a] =>
            /\ op' \in {"copy", "append"}
            /\ dst'.buf # NULL
            /\ a >= dst'.buf
            /\ a < dst'.buf + Min(s'.len, dst'.len)
      ]_vars

\* a segment strictly inside the buffer, filled from a longer source: the
\* bytes on both sides of it are as they were at the start
C14_Witness ==
    /\ pc = "done"
    /\ op \in {"copy", "append"}
    /\ dst.buf > DstBase
    /\ dst.len > 0
    /\ dst.buf + dst.len < DstBase + DstCap
    /\ mu_string_is_valid(s)
    /\ s.len > dst.len
    /\ mem[dst.buf] = mem[s.buf]
    /\ mem[dst.buf - 1] = 0
    /\ mem[dst.buf + dst.len] = 0

\* ------------------------------------------------------------------------
\* Trimming and searching

Greatest(S) == CHOOSE i \in S : \A j \in S : i >= j

\* every byte of a valid view is a byte of memory
Readable(v) ==
    mu_string_is_valid(v) => \A i \in 0 .. v.len - 1 : v.buf + i \in DOMAIN mem

\* a valid view of length 0
EmptyView(v) == mu_string_is_valid(v) /\ v.len = 0

\* C15: trimming is idempotent: for every view v and every predicate p, NULL
\* included, mu_string_trim(mu_string_trim(v, p), p) is equal under
\* mu_string_eq to mu_string_trim(v, p).  ret is the first trim of s; the
\* second trim has to be one the program can carry out (ret lies in memory),
\* and whatever it returns has to be equal to ret.
C15_TrimIdempotent ==
    Done("trim") =>
        /\ Readable(ret)
        /\ \A ub \in Undefined :
             mu_string_eq(mu_string_trim(ret, pred, ub), ret)

\* C16: for a valid s and a non-NULL pred, mu_string_ltrim returns s without
\* its longest prefix of bytes satisfying pred, mu_string_rtrim returns s
\* without its longest such suffix, and mu_string_trim removes both and
\* keeps what lies between; with a NULL pred each returns s as it is; if
\* every byte of a non-empty s satisfies pred each returns an empty view.
C16_TrimFamily ==
    (pc = "done" /\ op \in {"ltrim", "rtrim", "trim"} /\ mu_string_is_valid(s)) =>
        IF pred.null \/ s.len = 0 THEN ret = s
        ELSE IF NotPredHits = {} THEN EmptyView(ret)
        ELSE LET first == Least(NotPredHits)
                 last == Greatest(NotPredHits)
             IN  CASE op = "ltrim" -> ret = View(s.buf + first, s.len - first)
                   [] op = "rtrim" -> ret = View(s.buf, last + 1)
                   [] op = "trim" -> ret = View(s.buf + first, last - first + 1)

\* C17: for a valid s, mu_string_find_char and mu_string_find_pred return
\* the suffix {s.buf + i, s.len - i} of s from the first index i whose byte
\* is c, or satisfies pred; mu_string_rfind_char and mu_string_rfind_pred
\* return the suffix from the last such index; if s is empty, or no byte
\* matches, or pred is NULL, the result is an empty view, valid and of
\* length 0.
C17_Search ==
    (pc = "done"
       /\ op \in {"find_char", "rfind_char", "find_pred", "rfind_pred"}
       /\ mu_string_is_valid(s)) =>
        LET by_pred == op \in {"find_pred", "rfind_pred"}
            hits == IF by_pred
                      THEN (IF pred.null THEN {} ELSE PredHits)
                      ELSE CharHits
        IN  IF hits = {} THEN EmptyView(ret)
            ELSE LET i == IF op \in {"find_char", "find_pred"}
                            THEN Least(hits) ELSE Greatest(hits)
                 IN  ret = View(s.buf + i, s.len - i)

\* the indexes of s at which needle occurs
StrHits ==
    {i \in 0 .. s.len - needle.len :
       \A k \in 0 .. needle.len - 1 : mem[s.buf + i + k] = mem[needle.buf + k]}

\* C18: mu_string_find_str(h, n) for valid h and n: an empty n returns h as
\* it is (same buf and len, also when h is empty); an n longer than h
\* returns an empty view; otherwise the result is the suffix
\* {h.buf + i, h.len - i} of h from the smallest i at which n occurs, or an
\* empty view if n does not occur.
C18_FindStr ==
    (Done("find_str") /\ mu_string_is_valid(s) /\ mu_string_is_valid(needle)) =>
        IF needle.len = 0 THEN ret = s
        ELSE IF needle.len > s.len THEN EmptyView(ret)
        ELSE IF StrHits = {} THEN EmptyView(ret)
        ELSE ret = View(s.buf + Least(StrHits), s.len - Least(StrHits))

\* a needle that occurs twice, first behind the start of the haystack: the
\* result runs from the first occurrence through the end of the haystack
C18_Witness ==
    /\ Done("find_str")
    /\ mu_string_is_valid(s)
    /\ mu_string_is_valid(needle)
    /\ needle.len > 0
    /\ needle.len < s.len
    /\ Cardinality(StrHits) >= 2
    /\ Least(StrHits) > 0
    /\ ret = View(s.buf + Least(StrHits), s.len - Least(StrHits))
    /\ ret.len > needle.len

\* C19 as claimed: for a valid s and a non-NULL pred the result is the suffix
\* of s from the first byte that does not satisfy pred, or an empty view if
\* every byte satisfies it; with a NULL pred the result is s itself, same
\* buf and same len, for every valid s.
C19_Claimed ==
    (Done("find_first_not_pred") /\ mu_string_is_valid(s)) =>
        IF pred.null THEN ret = s
        ELSE IF NotPredHits = {} THEN EmptyView(ret)
        ELSE ret = View(s.buf + Least(NotPredHits), s.len - Least(NotPredHits))

\* C19: for a valid s, mu_string_find_first_not_pred returns MU_STRING_EMPTY
\* if s is empty, whatever pred is; for a non-empty s it returns s itself
\* (same buf, same len) if pred is NULL, and otherwise the suffix of s from
\* the first byte that does not satisfy pred, or MU_STRING_EMPTY if every
\* byte satisfies it.
C19_FindFirstNotPred ==
    (Done("find_first_not_pred") /\ mu_string_is_valid(s)) =>
        IF s.len = 0 THEN ret = MU_STRING_EMPTY
        ELSE IF pred.null THEN ret = s
        ELSE IF NotPredHits = {} THEN ret = MU_STRING_EMPTY
        ELSE ret = View(s.buf + Least(NotPredHits), s.len - Least(NotPredHits))

\* a NULL pred and an empty view of the text: the result is the empty
\* literal, not the view passed in
C19_Witness ==
    /\ Done("find_first_not_pred")
    /\ pred.null
    /\ s.len = 0
    /\ s.buf >= SrcBase
    /\ ret = MU_STRING_EMPTY
    /\ ret.buf # s.buf

\* the indexes below both lengths at which s and needle differ
Diffs ==
    {i \in 0 .. Min(s.len, needle.len) - 1 :
       mem[s.buf + i] # mem[needle.buf + i]}

Sign(n) == IF n < 0 THEN 0 - 1 ELSE IF n > 0 THEN 1 ELSE 0

\* C20: mu_string_cmp(s1, s2): two invalid views compare equal; an invalid
\* view is less than every valid one, the empty ones included, and a valid
\* view greater than an invalid one; two valid views that differ at an index
\* below the shorter length compare as their first differing bytes do, taken
\* as unsigned values; otherwise the shorter view, a prefix of the other, is
\* less, and views of equal length compare equal.
C20_CmpOrdering ==
    Done("cmp") =>
        IF ~mu_string_is_valid(s) /\ ~mu_string_is_valid(needle) THEN retn = 0
        ELSE IF ~mu_string_is_valid(s) THEN retn < 0
        ELSE IF ~mu_string_is_valid(needle) THEN retn > 0
        ELSE IF Diffs # {}
          THEN Sign(retn) = Sign(mem[s.buf + Least(Diffs)]
                                   - mem[needle.buf + Least(Diffs)])
        ELSE Sign(retn) = Sign(s.len - needle.len)

\* the longer view is the lesser one: the views agree on their first byte
\* and differ on a later one
C20_Witness ==
    /\ Done("cmp")
    /\ mu_string_is_valid(s)
    /\ mu_string_is_valid(needle)
    /\ s.len > needle.len
    /\ Diffs # {}
    /\ Least(Diffs) > 0
    /\ mem[s.buf + Least(Diffs)] < mem[needle.buf + Least(Diffs)]
    /\ retn < 0

\* ------------------------------------------------------------------------
\* Comparisons and accessors

\* C21: mu_string_eq(s1, s2): if either view is invalid the result is true
\* exactly when both are; for two valid views it is true exactly when the
\* lengths are equal and the bytes are the same, so two valid views of
\* length 0 are equal whatever their buf pointers are, NULL or not.
C21_Eq ==
    Done("eq") =>
        IF ~mu_string_is_valid(s) \/ ~mu_string_is_valid(needle)
          THEN retb = (~mu_string_is_valid(s) /\ ~mu_string_is_valid(needle))
          ELSE retb = (/\ s.len = needle.len
                       /\ BytesAt(mem, s.buf, s.len)
                            = BytesAt(mem, needle.buf, needle.len))

\* two views of length 0, one with a NULL buf and one inside the text, equal
C21_Witness ==
    /\ Done("eq")
    /\ s = View(NULL, 0)
    /\ needle.buf > SrcBase
    /\ needle.len = 0
    /\ retb

\* C22: mu_string_starts_with(s, p) and mu_string_ends_with(s, p) are false
\* whenever s or p is invalid, both invalid included; otherwise true when
\* p.len = 0, also for an empty s; otherwise false when p.len > s.len;
\* otherwise true exactly when the first (for ends_with: the last) p.len
\* bytes of s are the bytes of p.
C22_StartsEndsWith ==
    (pc = "done" /\ op \in {"starts_with", "ends_with"}) =>
        IF ~mu_string_is_valid(s) \/ ~mu_string_is_valid(needle) THEN ~retb
        ELSE IF needle.len = 0 THEN retb
        ELSE IF needle.len > s.len THEN ~retb
        ELSE LET from == IF op = "starts_with" THEN s.buf
                         ELSE s.buf + (s.len - needle.len)
             IN  retb = (BytesAt(mem, from, needle.len)
                           = BytesAt(mem, needle.buf, needle.len))

\* a proper suffix of s that is not a prefix of it
C22_Witness ==
    /\ Done("ends_with")
    /\ mu_string_is_valid(s)
    /\ mu_string_is_valid(needle)
    /\ needle.len > 0
    /\ needle.len < s.len
    /\ retb
    /\ BytesAt(mem, s.buf, needle.len) # BytesAt(mem, needle.buf, needle.len)

\* C23: for every invalid view v, mu_string_len(v) is SIZE_MAX and
\* mu_string_is_empty(v) is false; for every valid view mu_string_len
\* returns v.len and mu_string_is_empty(v) is true exactly when v.len = 0.
C23_Accessors ==
    /\ Done("len") =>
         retn = IF mu_string_is_valid(s) THEN s.len ELSE SIZE_MAX
    /\ Done("is_empty") =>
         retb = (mu_string_is_valid(s) /\ s.len = 0)

\* the length of an invalid view whose len field is not SIZE_MAX
C23_Witness ==
    /\ Done("len")
    /\ ~mu_string_is_valid(s)
    /\ s.len < SIZE_MAX
    /\ retn = SIZE_MAX

\* ------------------------------------------------------------------------
\* What the header and the unit tests say

\* C24: by the header's description of mu_string_append, an append that
\* consumes the whole destination segment (src.len >= segment.len > 0)
\* returns MU_STRING_MUT_EMPTY, that is {NULL, 0}.
C24_AppendConsumedPerHeader ==
    (Done("append") /\ dst.buf # NULL /\ mu_string_is_valid(s)
       /\ dst.len > 0 /\ s.len >= dst.len) =>
        ret = MU_STRING_MUT_EMPTY

\* C25: by the unit test of mu_string_split_by_pred, for a valid s, empty or
\* not, and a non-NULL pred that no byte of s satisfies, the view returned is
\* equal under mu_string_eq to MU_STRING_NOT_FOUND and, when after is not
\* NULL, so is *after.
C25_SplitByPredPerTest ==
    (Done("split_by_pred") /\ mu_string_is_valid(s) /\ ~pred.null
       /\ PredHits = {}) =>
      /\ mu_string_eq(ret, MU_STRING_NOT_FOUND)
      /\ after_ptr => mu_string_eq(after, MU_STRING_NOT_FOUND)

\* ------------------------------------------------------------------------
\* Invariants of the cursor

\* what every segment r of a chain begun with {buf, cap} satisfies
CursorInv ==
    /\ (ret.buf - seg0.buf) + ret.len = seg0.len
    /\ seg0.len - ret.len = Min(seg0.len, total)
    /\ BytesAt(mem, seg0.buf, seg0.len - ret.len) = cat

NonSentinel(v) == mu_string_is_valid(v) /\ v # MU_STRING_NOT_FOUND

\* before and *after tile s
Tiles ==
    /\ ret.buf = s.buf
    /\ after.buf = s.buf + ret.len
    /\ ret.len + after.len = s.len

C28_CmpPreorder ==
    Done("cmp") =>
        /\ mu_string_cmp(s, s) = 0
        /\ mu_string_eq(s, s)
        /\ (retn = 0) = mu_string_eq(s, needle)
        /\ Sign(retn) = 0 - Sign(mu_string_cmp(needle, s))
        /\ \A w \in Views :
             (retn <= 0 /\ mu_string_cmp(needle, w) <= 0)
               => mu_string_cmp(s, w) <= 0

\* three non-empty views of three lengths in strictly ascending order
C28_Witness ==
    /\ Done("cmp")
    /\ mu_string_is_valid(s)
    /\ mu_string_is_valid(needle)
    /\ s.len > 0
    /\ needle.len > 0
    /\ s.len # needle.len
    /\ retn < 0
    /\ \E w \in Views :
         /\ mu_string_is_valid(w)
         /\ w.len > 0
         /\ w.len # s.len
         /\ w.len # needle.len
         /\ mu_string_cmp(needle, w) < 0
         /\ mu_string_cmp(s, w) < 0

\* C29: the backward scans do not depend on the length fitting in an int:
\* for every valid s, of any length a size_t can hold, lengths above INT_MAX
\* included, mu_string_rfind_char and mu_string_rfind_pred return the suffix
\* of s from the last matching byte (an empty view if there is none),
\* mu_string_rtrim returns s without its longest suffix of bytes satisfying
\* pred, and mu_string_trim returns s without its longest such prefix and
\* suffix.  The int index has IntBits bits, fewer than size_t has.
C29_ReverseScans ==
    (pc = "done" /\ op \in {"rfind_char", "rfind_pred", "rtrim", "trim"}
       /\ mu_string_is_valid(s)) =>
        CASE op = "rfind_char" ->
               IF CharHits = {} THEN EmptyView(ret)
               ELSE ret = View(s.buf + Greatest(CharHits),
                               s.len - Greatest(CharHits))
          [] op = "rfind_pred" ->
               IF pred.null \/ PredHits = {} THEN EmptyView(ret)
               ELSE ret = View(s.buf + Greatest(PredHits),
                               s.len - Greatest(PredHits))
          [] op = "rtrim" ->
               IF pred.null \/ s.len = 0 THEN ret = s
               ELSE IF NotPredHits = {} THEN EmptyView(ret)
               ELSE ret = View(s.buf, Greatest(NotPredHits) + 1)
          [] op = "trim" ->
               IF pred.null \/ s.len = 0 THEN ret = s
               ELSE IF NotPredHits = {} THEN EmptyView(ret)
               ELSE ret = View(s.buf + Least(NotPredHits),
                               Greatest(NotPredHits) - Least(NotPredHits) + 1)

\* C30: for every view s, invalid ones included, and every pred, NULL
\* included, mu_string_trim(s, p) is equal under mu_string_eq to
\* mu_string_rtrim(mu_string_ltrim(s, p), p) and to
\* mu_string_ltrim(mu_string_rtrim(s, p), p); and for a non-NULL p
\* mu_string_ltrim(s, p) is equal under mu_string_eq to
\* mu_string_find_first_not_pred(s, p).  ret is mu_string_trim(s, pred); the
\* other calls may each meet the undefined behaviour their own way.
C30_TrimDecomposition ==
    Done("trim") =>
        /\ Readable(ret)
        /\ \A ub \in Undefined :
             /\ mu_string_eq(ret, mu_string_rtrim(mu_string_ltrim(s, pred),
                                                  pred, ub))
             /\ mu_string_eq(ret, mu_string_ltrim(mu_string_rtrim(s, pred, ub),
                                                  pred))
        /\ ~pred.null =>
             mu_string_eq(mu_string_ltrim(s, pred),
                          mu_string_find_first_not_pred(s, pred))

====
